---- MODULE Spec2Model ----
(***************************************************************************)
(* qcsys devices: SingleChargeTransmon (charge basis) and Fluxonium        *)
(* (linear basis).  The devices are immutable value objects; the state of  *)
(* the model is the constructed device, its two lazily filled caches       *)
(* (linear_ops, eig_systems) and the outcome of the last method call.      *)
(*                                                                         *)
(* Numbers are exact.  A real is a finite sum of terms (n/d)*pi^p*sqrt(r)  *)
(* kept in a canonical form, so that 0.5, sqrt(2), (2*pi*phi)**2 and       *)
(* cos(2*pi*k/24) are the values the source's expressions denote.          *)
(***************************************************************************)
EXTENDS Integers, Sequences, FiniteSets, TLC

VARIABLES dev, linear_ops, eig_systems, call, arg, ret, err, built

vars == <<dev, linear_ops, eig_systems, call, arg, ret, err, built>>

(***************************************************************************)
(* Bounds of the model.                                                    *)
(***************************************************************************)
MaxN == 3
MaxNMaxCharge == 1
MaxNPreDiag == 3
ExpmOrder == 4

(***************************************************************************)
(* Exact real arithmetic (jax.numpy scalars with jax_enable_x64).          *)
(* A term <<p, r, n, d>> is (n/d) * pi^p * sqrt(r) with r squarefree,      *)
(* d > 0, n # 0 and gcd(n, d) = 1; a real is a sequence of terms strictly  *)
(* increasing in (p, r).                                                   *)
(***************************************************************************)
Abs(x) == IF x < 0 THEN -x ELSE x

\* the sequence <<f[1], ..., f[n]>>
RECURSIVE SeqFrom(_, _)
SeqFrom(f, n) == IF n = 0 THEN <<>> ELSE Append(SeqFrom(f, n - 1), f[n])

RECURSIVE Gcd(_, _)
Gcd(a, b) == IF b = 0 THEN a ELSE Gcd(b, a % b)

Term(p, r, n, d) == LET g == Gcd(Abs(n), d) IN <<p, r, n \div g, d \div g>>

KeyLess(a, b) == a[1] < b[1] \/ (a[1] = b[1] /\ a[2] < b[2])

RZero == <<>>

Rat(n, d) == IF n = 0 THEN <<>> ELSE <<Term(0, 1, IF d < 0 THEN -n ELSE n, Abs(d))>>

RInt(n) == Rat(n, 1)

RPi == <<<<1, 1, 1, 1>>>>

\* the sum of two terms with the same pi power and radicand, as a real
TermAdd(a, b) ==
    LET g == Gcd(a[4], b[4])
        n == a[3] * (b[4] \div g) + b[3] * (a[4] \div g)
    IN IF n = 0 THEN <<>> ELSE <<Term(a[1], a[2], n, (a[4] \div g) * b[4])>>

\* the leading part of x + y, and what is left of x and of y (a and b are their heads)
RAddHead(a, b, x, y) ==
    IF KeyLess(a, b) THEN <<<<a>>, Tail(x), y>>
    ELSE IF KeyLess(b, a) THEN <<<<b>>, x, Tail(y)>>
    ELSE <<TermAdd(a, b), Tail(x), Tail(y)>>

RECURSIVE RAdd(_, _)
RAddStep(step) == step[1] \o RAdd(step[2], step[3])

RAdd(x, y) ==
    IF x = <<>> THEN y
    ELSE IF y = <<>> THEN x
    ELSE RAddStep(RAddHead(Head(x), Head(y), x, y))

RECURSIVE RNeg(_)
RNeg(x) ==
    IF x = <<>> THEN <<>>
    ELSE <<<<Head(x)[1], Head(x)[2], -Head(x)[3], Head(x)[4]>>>> \o RNeg(Tail(x))

RSub(x, y) == RAdd(x, RNeg(y))

\* (na/da)*pi^pa*sqrt(ra) * (nb/db)*pi^pb*sqrt(rb), with g = gcd(ra, rb),
\* reduced crosswise by h = <<gcd(|na|, db), gcd(|nb|, da)>> before multiplying
TermMulReduced(a, b, g, h) ==
    Term(a[1] + b[1], (a[2] \div g) * (b[2] \div g),
         (a[3] \div h[1]) * (b[3] \div h[2]) * g, (a[4] \div h[2]) * (b[4] \div h[1]))

CrossGcd(a, b) == SeqFrom([k \in 1..2 |-> IF k = 1 THEN Gcd(Abs(a[3]), b[4])
                                          ELSE Gcd(Abs(b[3]), a[4])], 2)

TermMul(a, b) == TermMulReduced(a, b, Gcd(a[2], b[2]), CrossGcd(a, b))

RECURSIVE RMulTerm(_, _)
RMulTerm(a, y) ==
    IF y = <<>> THEN <<>>
    ELSE RAdd(<<TermMul(a, Head(y))>>, RMulTerm(a, Tail(y)))

RECURSIVE RMul(_, _)
RMul(x, y) == IF x = <<>> THEN <<>> ELSE RAdd(RMulTerm(Head(x), y), RMul(Tail(x), y))

\* the sum of the products x * y of the pairs <<x, y>> of ps
RECURSIVE RDot(_)
RDot(ps) == IF ps = <<>> THEN <<>> ELSE RAdd(RMul(Head(ps)[1], Head(ps)[2]), RDot(Tail(ps)))

\* x is a rational number (no pi, no square root)
IsRat(x) == x = <<>> \/ (Len(x) = 1 /\ x[1][1] = 0 /\ x[1][2] = 1)

Num(x) == IF x = <<>> THEN 0 ELSE x[1][3]

Den(x) == IF x = <<>> THEN 1 ELSE x[1][4]

\* x < y for rationals
RLess(x, y) == Num(RSub(x, y)) < 0

\* x / y for a rational y # 0
RDiv(x, y) == RMul(x, Rat(Den(y), Num(y)))

\* the largest m with m*m dividing k
SquarePart(k) ==
    CHOOSE m \in 1..k : (k % (m * m) = 0) /\ \A m2 \in (m + 1)..k : k % (m2 * m2) # 0

\* jnp.sqrt of a rational x >= 0: sqrt(n/d) = sqrt(n*d)/d
SqrtTerm(k, m, d) == <<Term(0, k \div (m * m), m, d)>>

RSqrt(x) ==
    IF x = <<>> THEN <<>>
    ELSE SqrtTerm(Num(x) * Den(x), SquarePart(Num(x) * Den(x)), Den(x))

\* the integer fourth root of a fourth power
Root4(k) == CHOOSE m \in 0..k : m * m * m * m = k

\* x ** 0.25 for a rational x >= 0 whose numerator and denominator are fourth powers
Pow025(x) == Rat(Root4(Num(x)), Root4(Den(x)))

\* cos(k*pi/12) for 0 <= k <= 6: 1, (sqrt(6)+sqrt(2))/4, sqrt(3)/2, sqrt(2)/2, 1/2,
\* (sqrt(6)-sqrt(2))/4, 0
CosFirstQuadrant(k) ==
    CASE k = 0 -> <<<<0, 1, 1, 1>>>>
      [] k = 1 -> <<<<0, 2, 1, 4>>, <<0, 6, 1, 4>>>>
      [] k = 2 -> <<<<0, 3, 1, 2>>>>
      [] k = 3 -> <<<<0, 2, 1, 2>>>>
      [] k = 4 -> <<<<0, 1, 1, 2>>>>
      [] k = 5 -> <<<<0, 2, -1, 4>>, <<0, 6, 1, 4>>>>
      [] k = 6 -> <<>>

\* cos(k*pi/12) for an integer k
CosHalfTurn(h) == IF h <= 6 THEN CosFirstQuadrant(h) ELSE RNeg(CosFirstQuadrant(12 - h))

CosTwelfth(k) == CosHalfTurn(IF Abs(k) % 24 > 12 THEN 24 - (Abs(k) % 24) ELSE Abs(k) % 24)

\* x is a rational multiple q*pi of pi with 12*q an integer
IsAngle(x) ==
    x = <<>> \/ (Len(x) = 1 /\ x[1][1] = 1 /\ x[1][2] = 1 /\ 12 % x[1][4] = 0)

Twelfths(x) == IF x = <<>> THEN 0 ELSE x[1][3] * (12 \div x[1][4])

\* jnp.cos and jnp.sin of an angle
RCos(x) == CosTwelfth(Twelfths(x))

RSin(x) == CosTwelfth(Twelfths(x) - 6)

(***************************************************************************)
(* Complex numbers and matrices (jax.numpy arrays).  A matrix is the       *)
(* sequence of its rows; Python's index i is position i + 1.               *)
(***************************************************************************)
Cx(re, im) == [re |-> re, im |-> im]

CZero == Cx(RZero, RZero)

COne == Cx(RInt(1), RZero)

\* the Python literal 1j
CI == Cx(RZero, RInt(1))

CReal(x) == Cx(x, RZero)

CFrom(s) == Cx(s[1], s[2])

CNeg(x) == Cx(RNeg(x.re), RNeg(x.im))

CConj(x) == Cx(x.re, RNeg(x.im))

\* the real part (k = 1) or the imaginary part (k = 2)
Part(x, k) == IF k = 1 THEN x.re ELSE x.im

CAdd(x, y) == CFrom(SeqFrom([k \in 1..2 |-> RAdd(Part(x, k), Part(y, k))], 2))

CSub(x, y) == CAdd(x, CNeg(y))

\* (a + bj)(c + dj) = (ac - bd) + (ad + bc)j
CMul(x, y) ==
    CFrom(SeqFrom([k \in 1..2 |->
                      RDot(IF k = 1 THEN <<<<x.re, y.re>>, <<RNeg(x.im), y.im>>>>
                           ELSE <<<<x.re, y.im>>, <<x.im, y.re>>>>)], 2))

Mat(n, m, f) == SeqFrom([i \in 1..n |-> SeqFrom([j \in 1..m |-> f[i, j]], m)], n)

Rows(A) == Len(A)

Cols(A) == IF Len(A) = 0 THEN 0 ELSE Len(A[1])

\* Python's A[i, j]
At(A, i, j) == A[i + 1][j + 1]

IsSquare(A, n) == Len(A) = n /\ \A i \in 1..Len(A) : Len(A[i]) = n

RECURSIVE CSum(_, _)
CSum(f, n) == IF n = 0 THEN CZero ELSE CAdd(CSum(f, n - 1), f[n])

\* what stands for the error jax.numpy raises on operands of incompatible shapes
ShapeError == <<"shape error">>

\* jnp.dot and @ of two matrices
MatMul(A, B) ==
    IF Cols(A) # Rows(B) THEN ShapeError
    ELSE Mat(Rows(A), Cols(B),
             [i \in 1..Rows(A), j \in 1..Cols(B) |->
                 CSum([k \in 1..Cols(A) |-> CMul(A[i][k], B[k][j])], Cols(A))])

MatAdd(A, B) ==
    IF Rows(A) # Rows(B) \/ Cols(A) # Cols(B) THEN ShapeError
    ELSE Mat(Rows(A), Cols(A),
             [i \in 1..Rows(A), j \in 1..Cols(A) |-> CAdd(A[i][j], B[i][j])])

MatSub(A, B) ==
    IF Rows(A) # Rows(B) \/ Cols(A) # Cols(B) THEN ShapeError
    ELSE Mat(Rows(A), Cols(A),
             [i \in 1..Rows(A), j \in 1..Cols(A) |-> CSub(A[i][j], B[i][j])])

MatScale(c, A) ==
    Mat(Rows(A), Cols(A), [i \in 1..Rows(A), j \in 1..Cols(A) |-> CMul(c, A[i][j])])

\* A.transpose()
Transpose(A) == Mat(Cols(A), Rows(A), [i \in 1..Cols(A), j \in 1..Rows(A) |-> A[j][i]])

\* jnp.conjugate(A)
Conjugate(A) == Mat(Rows(A), Cols(A), [i \in 1..Rows(A), j \in 1..Cols(A) |-> CConj(A[i][j])])

\* jnp.eye(n, k=k)
Eye(n, k) == Mat(n, n, [i \in 1..n, j \in 1..n |-> IF j - i = k THEN COne ELSE CZero])

\* jnp.diag(v) of a vector v
Diag(v) ==
    Mat(Len(v), Len(v), [i \in 1..Len(v), j \in 1..Len(v) |-> IF i = j THEN v[i] ELSE CZero])

\* jnp.arange(lo, hi)
Arange(lo, hi) == SeqFrom([k \in 1..(hi - lo) |-> CReal(RInt(lo + k - 1))], hi - lo)

\* jnp.ones(n)
Ones(n) == SeqFrom([k \in 1..n |-> COne], n)

\* u - v, c * v and v ** 2 of vectors, elementwise
VecSub(u, v) ==
    IF Len(u) # Len(v) THEN ShapeError
    ELSE SeqFrom([k \in 1..Len(u) |-> CSub(u[k], v[k])], Len(u))

VecScale(c, v) == SeqFrom([k \in 1..Len(v) |-> CMul(c, v[k])], Len(v))

VecSquare(v) == SeqFrom([k \in 1..Len(v) |-> CMul(v[k], v[k])], Len(v))

\* A[:, :n]
FirstCols(A, n) ==
    LET m == IF n < Cols(A) THEN n ELSE Cols(A)
    IN Mat(Rows(A), m, [i \in 1..Rows(A), j \in 1..m |-> A[i][j]])

(***************************************************************************)
(* Outcomes of a call: a value returned or an exception raised.            *)
(***************************************************************************)
NoDevice == [kind |-> "none"]

Unset == [set |-> FALSE]

Cached(v) == [set |-> TRUE, val |-> v]

NoValue == [tag |-> "none"]

Returned(tag, v) == [err |-> "none", val |-> [tag |-> tag, val |-> v], built |-> <<>>]

Raised(e) == [err |-> e, val |-> NoValue, built |-> <<>>]

\* a function that falls off its end returns None
ReturnedNone == [err |-> "none", val |-> [tag |-> "None"], built |-> <<>>]

(***************************************************************************)
(* SingleChargeTransmon                                                    *)
(***************************************************************************)
\* the dataclass constructor: the fields of Device, then N_max_charge
SingleChargeTransmon(N, params, label, use_linear, N_max_charge) ==
    [kind |-> "SingleChargeTransmon", N |-> N, params |-> params, label |-> label,
     use_linear |-> use_linear, N_max_charge |-> N_max_charge]

SingleChargeTransmon_create_swapped(N, N_max_charge, params, label, use_linear) ==
    Returned("device", SingleChargeTransmon(N_max_charge, params, label, use_linear, N))

SingleChargeTransmon_create(N, N_max_charge, params, label, use_linear) ==
    Returned("device", SingleChargeTransmon(N, params, label, use_linear, N_max_charge))

TruncationValid_strict(self) == self.N < 2 * self.N_max_charge + 1

\* assert self.N <= 2 * self.N_max_charge + 1
TruncationValid(self) == self.N <= 2 * self.N_max_charge + 1

build_n_op_from_zero(self) == Diag(Arange(0, 2 * self.N_max_charge + 1))

build_n_op(self) == Diag(Arange(-self.N_max_charge, self.N_max_charge + 1))

build_cos_phi_op_adjacent(self) ==
    MatScale(CReal(Rat(1, 2)),
             MatAdd(Eye(2 * self.N_max_charge + 1, 1), Eye(2 * self.N_max_charge + 1, -1)))

build_cos_phi_op_upper(self) ==
    MatScale(CReal(Rat(1, 2)), Eye(2 * self.N_max_charge + 1, 2))

build_cos_phi_op(self) ==
    MatScale(CReal(Rat(1, 2)),
             MatAdd(Eye(2 * self.N_max_charge + 1, 2), Eye(2 * self.N_max_charge + 1, -2)))

build_cos_phi_2_op(self) ==
    MatScale(CReal(Rat(1, 2)),
             MatAdd(Eye(2 * self.N_max_charge + 1, 1), Eye(2 * self.N_max_charge + 1, -1)))

build_sin_phi_2_op(self) ==
    MatScale(Cx(RZero, Rat(1, 2)),
             MatSub(Eye(2 * self.N_max_charge + 1, 1), Eye(2 * self.N_max_charge + 1, -1)))

\* the keys "cos(phi)", "cos(phi/2)", "sin(phi/2)" stand for the source's keys
\* written with the Greek letter
SingleChargeTransmon_common_ops(self) ==
    IF ~TruncationValid(self) THEN Raised("AssertionError")
    ELSE [err |-> "none",
          val |-> [tag |-> "ops",
                   val |-> ("n" :> build_n_op(self)) @@ ("cos(phi)" :> build_cos_phi_op(self))
                           @@ ("cos(phi/2)" :> build_cos_phi_2_op(self))
                           @@ ("sin(phi/2)" :> build_sin_phi_2_op(self))],
          built |-> <<"build_n_op", "build_cos_phi_op", "build_cos_phi_2_op",
                      "build_sin_phi_2_op">>]

\* the builtin constant NotImplemented: an instance of NotImplementedType, which
\* has no __call__ and is not an exception class
NotImplemented == [type |-> "NotImplementedType", callable |-> FALSE]

\* the builtin exception class NotImplementedError
NotImplementedError == [type |-> "NotImplementedError", callable |-> TRUE]

\* obj(...): calling an object that is not callable raises TypeError
PyCall(obj) == IF obj.callable THEN Returned("exception", obj.type) ELSE Raised("TypeError")

\* raise <expr>: the expression is evaluated first
PyRaise(e) == IF e.err # "none" THEN e ELSE Raised(e.val.val)

SingleChargeTransmon_get_H_linear(self) == PyRaise(PyCall(NotImplemented))

SingleChargeTransmon_get_H_full_unsquared(self, ops) ==
    LET n_minus_ng_array ==
            VecSub(Arange(-self.N_max_charge, self.N_max_charge + 1),
                   VecScale(CReal(RMul(RInt(2), self.params.ng)),
                            Ones(2 * self.N_max_charge + 1)))
    IN MatSub(Diag(VecScale(CReal(self.params.Ec), n_minus_ng_array)),
              MatScale(CReal(self.params.Ej), ops["cos(phi)"]))

\* ops is self.linear_ops
SingleChargeTransmon_get_H_full(self, ops) ==
    LET n_minus_ng_array ==
            VecSub(Arange(-self.N_max_charge, self.N_max_charge + 1),
                   VecScale(CReal(RMul(RInt(2), self.params.ng)),
                            Ones(2 * self.N_max_charge + 1)))
    IN MatSub(Diag(VecScale(CReal(self.params.Ec), VecSquare(n_minus_ng_array))),
              MatScale(CReal(self.params.Ej), ops["cos(phi)"]))

SingleChargeTransmon_get_op_in_H_eigenbasis_noconj(self, eig, op) ==
    LET evecs == FirstCols(eig["vecs"], self.N)
    IN MatMul(Transpose(evecs), MatMul(op, evecs))

\* eig is self.eig_systems
SingleChargeTransmon_get_op_in_H_eigenbasis(self, eig, op) ==
    LET evecs == FirstCols(eig["vecs"], self.N)
    IN MatMul(Conjugate(Transpose(evecs)), MatMul(op, evecs))

(***************************************************************************)
(* The numerics collaborator (jaxquantum).                                 *)
(***************************************************************************)
\* jqt.identity(N)
identity(N) == Eye(N, 0)

\* jqt.destroy(N): <i| a |i+1> = sqrt(i+1)
destroy(N) ==
    Mat(N, N, [i \in 1..N, j \in 1..N |-> IF j = i + 1 THEN CReal(RSqrt(RInt(i))) ELSE CZero])

\* jqt.create(N)
create(N) == Conjugate(Transpose(destroy(N)))

RECURSIVE Factorial(_)
Factorial(k) == IF k = 0 THEN 1 ELSE k * Factorial(k - 1)

\* <<sum of Y^k/k! for k = 0..K, Y^K>>
RECURSIVE ExpSeries(_, _)
ExpSeries(Y, K) ==
    IF K = 0 THEN <<Eye(Rows(Y), 0), Eye(Rows(Y), 0)>>
    ELSE LET prev == ExpSeries(Y, K - 1)
             pw == MatMul(prev[2], Y)
         IN <<MatAdd(prev[1], MatScale(CReal(Rat(1, Factorial(K))), pw)), pw>>

\* the matrix exponential, as its power series up to the order ExpmOrder
expm(Y) == ExpSeries(Y, ExpmOrder)[1]

\* <<expm(1j*X), expm(-1j*X)>>
ExpPair(X) == SeqFrom([k \in 1..2 |-> expm(MatScale(IF k = 1 THEN CI ELSE CConj(CI), X))], 2)

HalfSum(E) == MatScale(CReal(Rat(1, 2)), MatAdd(E[1], E[2]))

HalfDifference(E) == MatScale(Cx(RZero, Rat(-1, 2)), MatSub(E[1], E[2]))

\* jqt.cosm(X) = (expm(1j*X) + expm(-1j*X)) / 2
cosm(X) == HalfSum(ExpPair(X))

\* jqt.sinm(X) = -0.5j * (expm(1j*X) - expm(-1j*X))
sinm(X) == HalfDifference(ExpPair(X))

(***************************************************************************)
(* Fluxonium                                                               *)
(***************************************************************************)
\* the dataclass constructor of FluxDevice
Fluxonium(N, N_pre_diag, params, label, hamiltonian) ==
    [kind |-> "Fluxonium", N |-> N, N_pre_diag |-> N_pre_diag, params |-> params,
     label |-> label, hamiltonian |-> hamiltonian]

\* the members of the enumeration HamiltonianTypes
HamiltonianTypes == {"linear", "truncated", "full"}

Fluxonium_n_zpf(self) == Pow025(RDiv(self.params.El, RMul(RInt(32), self.params.Ec)))

Fluxonium_phi_zpf(self) == Pow025(RDiv(RMul(RInt(2), self.params.Ec), self.params.El))

Fluxonium_get_linear_w(self) ==
    RSqrt(RMul(RMul(RInt(8), self.params.Ec), self.params.El))

Fluxonium_common_ops_N(self) ==
    LET N == self.N
        id == identity(N)
        a == destroy(N)
        a_dag == create(N)
        phi == MatScale(CReal(Fluxonium_phi_zpf(self)), MatAdd(a, a_dag))
        n == MatScale(CMul(CI, CReal(Fluxonium_n_zpf(self))), MatSub(a_dag, a))
        half == CReal(Rat(1, 2))
    IN [err |-> "none",
        val |-> [tag |-> "ops",
                 val |-> ("id" :> id) @@ ("a" :> a) @@ ("a_dag" :> a_dag) @@ ("phi" :> phi)
                         @@ ("n" :> n) @@ ("cos(phi/2)" :> cosm(MatScale(half, phi)))
                         @@ ("sin(phi/2)" :> sinm(MatScale(half, phi)))],
        built |-> <<>>]

Fluxonium_common_ops(self) ==
    LET N == self.N_pre_diag
        id == identity(N)
        a == destroy(N)
        a_dag == create(N)
        phi == MatScale(CReal(Fluxonium_phi_zpf(self)), MatAdd(a, a_dag))
        n == MatScale(CMul(CI, CReal(Fluxonium_n_zpf(self))), MatSub(a_dag, a))
        half == CReal(Rat(1, 2))
    IN [err |-> "none",
        val |-> [tag |-> "ops",
                 val |-> ("id" :> id) @@ ("a" :> a) @@ ("a_dag" :> a_dag) @@ ("phi" :> phi)
                         @@ ("n" :> n) @@ ("cos(phi/2)" :> cosm(MatScale(half, phi)))
                         @@ ("sin(phi/2)" :> sinm(MatScale(half, phi)))],
        built |-> <<>>]

\* ops is self.linear_ops
Fluxonium_get_H_linear(self, ops) ==
    LET w == Fluxonium_get_linear_w(self)
    IN MatScale(CReal(w),
                MatAdd(MatMul(ops["a_dag"], ops["a"]), MatScale(CReal(Rat(1, 2)), ops["id"])))

Fluxonium_get_H_full(self, ops) ==
    LET op_cos_phi == cosm(ops["phi"])
        op_sin_phi == sinm(ops["phi"])
        phi_ext == self.params.phi_ext
        angle == RMul(RMul(RInt(2), RPi), phi_ext)
        Hcos == MatAdd(MatScale(CReal(RCos(angle)), op_cos_phi),
                       MatScale(CReal(RSin(angle)), op_sin_phi))
        H == MatSub(Fluxonium_get_H_linear(self, ops), MatScale(CReal(self.params.Ej), Hcos))
    IN H

Fluxonium_potential_always_full(self, phi) ==
    LET phi_ext == self.params.phi_ext
        two_pi_phi == RMul(RMul(RInt(2), RPi), phi)
        V_linear == RMul(RMul(Rat(1, 2), self.params.El), RMul(two_pi_phi, two_pi_phi))
        V_nonlinear ==
            RMul(RNeg(self.params.Ej), RCos(RMul(RMul(RInt(2), RPi), RSub(phi, phi_ext))))
    IN Returned("scalar", RAdd(V_linear, V_nonlinear))

Fluxonium_potential(self, phi) ==
    LET phi_ext == self.params.phi_ext
        two_pi_phi == RMul(RMul(RInt(2), RPi), phi)
        V_linear == RMul(RMul(Rat(1, 2), self.params.El), RMul(two_pi_phi, two_pi_phi))
        V_nonlinear ==
            RMul(RNeg(self.params.Ej), RCos(RMul(RMul(RInt(2), RPi), RSub(phi, phi_ext))))
    IN IF self.hamiltonian = "linear" THEN Returned("scalar", V_linear)
       ELSE IF self.hamiltonian = "full" THEN Returned("scalar", RAdd(V_linear, V_nonlinear))
       ELSE ReturnedNone

(***************************************************************************)
(* The Device base type: the lazily cached properties linear_ops and       *)
(* eig_systems, and the diagonalization collaborator.                      *)
(***************************************************************************)
\* self.linear_ops: the cached mapping, or on the first access the outcome r of
\* self.common_ops(), which is cached when it returned
LinearOpsAccess(cache, r) ==
    IF cache.set
    THEN [err |-> "none", val |-> cache.val, cache |-> cache, built |-> <<>>]
    ELSE IF r.err # "none"
    THEN [err |-> r.err, val |-> NoValue, cache |-> cache, built |-> r.built]
    ELSE [err |-> "none", val |-> r.val.val, cache |-> Cached(r.val.val), built |-> r.built]

\* the Hamiltonian that eig_systems diagonalizes: get_H_linear() when use_linear,
\* get_H_full() otherwise
EigHamiltonian(self, cache) ==
    IF self.use_linear
    THEN [err |-> SingleChargeTransmon_get_H_linear(self).err, val |-> NoValue,
          cache |-> cache, built |-> <<>>]
    ELSE LET Full(lo) ==
                 IF lo.err # "none" THEN lo
                 ELSE [err |-> "none", val |-> SingleChargeTransmon_get_H_full(self, lo.val),
                       cache |-> lo.cache, built |-> lo.built]
         IN Full(LinearOpsAccess(cache, SingleChargeTransmon_common_ops(self)))

\* i ** k for the imaginary unit i
IPower(k) ==
    CASE k % 4 = 0 -> COne
      [] k % 4 = 1 -> CI
      [] k % 4 = 2 -> Cx(RInt(-1), RZero)
      [] k % 4 = 3 -> Cx(RZero, RInt(-1))

\* the phase of column j is i ** (c * j)
PhaseConventions == {0, 1}

\* the rotation that mixes the basis vectors i and j with equal weights
Hadamard(n, i, j) ==
    LET h == CReal(RMul(Rat(1, 2), RSqrt(RInt(2))))
    IN Mat(n, n, [k \in 1..n, l \in 1..n |->
                    IF k \in {i, j} /\ l \in {i, j}
                    THEN (IF k = j /\ l = j THEN CSub(CZero, h) ELSE h)
                    ELSE IF k = l THEN COne ELSE CZero])

MixerSet(n) == {Eye(n, 0)} \cup {Hadamard(n, p[1], p[2]) : p \in {q \in (1..n) \X (1..n) : q[1] < q[2]}}

IsDiagonal(A) == \A i \in 1..Rows(A), j \in 1..Cols(A) : i # j => A[i][j] = CZero

Ascending(v) == \A k \in 1..(Len(v) - 1) : IsRat(v[k].re) /\ IsRat(v[k + 1].re) /\ ~RLess(v[k + 1].re, v[k].re)

\* the columns of vecs are orthonormal eigenvectors of H, ordered by ascending
\* eigenvalue, and vals holds their eigenvalues
IsEigenSystem(H, es) ==
    /\ MatMul(H, es["vecs"]) = MatMul(es["vecs"], Diag(es["vals"]))
    /\ MatMul(Conjugate(Transpose(es["vecs"])), es["vecs"]) = Eye(Rows(H), 0)
    /\ Ascending(es["vals"])

\* the eigensystems of H whose eigenvectors are, up to a phase, basis vectors or
\* equal-weight mixtures of two basis vectors
EigenSystems(H) ==
    LET n == Rows(H)
        \* B is H in the basis of the columns of M
        Sorted(M, B) ==
            IF ~IsDiagonal(B) THEN {}
            ELSE {("vals" :> SeqFrom([k \in 1..n |-> B[c[1][k]][c[1][k]]], n))
                  @@ ("vecs" :> Mat(n, n, [i \in 1..n, j \in 1..n |->
                                             CMul(IPower(c[2] * j), M[i][c[1][j]])])) :
                  c \in {q \in Permutations(1..n) \X PhaseConventions :
                           Ascending(SeqFrom([k \in 1..n |-> B[q[1][k]][q[1][k]]], n))}}
        Candidates(M) == Sorted(M, MatMul(Conjugate(Transpose(M)), MatMul(H, M)))
    IN {es \in UNION {Candidates(M) : M \in MixerSet(n)} : IsEigenSystem(H, es)}

(***************************************************************************)
(* Inputs.                                                                 *)
(***************************************************************************)
EcValues == {Rat(1, 2), RInt(1)}

EjValues == {RZero, RInt(3)}

NgValues == {RZero, Rat(1, 4)}

TransmonParams == [Ec : EcValues, Ej : EjValues, ng : NgValues]

\* Ec and El with 2*Ec/El and El/(32*Ec) fourth powers of rationals
EcElValues == {<<RInt(1), RInt(2)>>, <<RInt(8), RInt(1)>>}

PhiExtValues == {RZero, Rat(1, 3)}

FluxoniumParams ==
    {[Ec |-> e[1], El |-> e[2], Ej |-> j, phi_ext |-> x] :
        e \in EcElValues, j \in EjValues, x \in PhiExtValues}

PhiValues == {RZero, Rat(1, 4), Rat(-1, 8)}

\* operators of the working dimension handed to get_op_in_H_eigenbasis
OperatorArguments(self) ==
    {identity(2 * self.N_max_charge + 1), build_n_op(self), build_sin_phi_2_op(self)}

(***************************************************************************)
(* The state machine.                                                      *)
(***************************************************************************)
Init ==
    /\ dev = NoDevice
    /\ linear_ops = Unset
    /\ eig_systems = Unset
    /\ call = "none"
    /\ arg = NoValue
    /\ ret = NoValue
    /\ err = "none"
    /\ built = <<>>

\* the outcome r of the call of method m with argument a
Outcome(m, a, r) ==
    /\ call' = m
    /\ arg' = a
    /\ ret' = r.val
    /\ err' = r.err
    /\ built' = r.built

CreateTransmon ==
    /\ dev = NoDevice
    /\ \E N \in 1..MaxN, N_max_charge \in 0..MaxNMaxCharge, params \in TransmonParams,
          use_linear \in BOOLEAN :
          LET Step(r) ==
                  /\ Outcome("create", [N |-> N, N_max_charge |-> N_max_charge], r)
                  /\ dev' = IF r.err = "none" THEN r.val.val ELSE dev
          IN Step(SingleChargeTransmon_create(N, N_max_charge, params, 0, use_linear))
    /\ UNCHANGED <<linear_ops, eig_systems>>

CreateFluxonium ==
    /\ dev = NoDevice
    /\ \E N \in {1, MaxN}, N_pre_diag \in 1..MaxNPreDiag, params \in FluxoniumParams,
          hamiltonian \in HamiltonianTypes :
          LET d == Fluxonium(N, N_pre_diag, params, 0, hamiltonian)
          IN /\ Outcome("create", [N |-> N, N_pre_diag |-> N_pre_diag], Returned("device", d))
             /\ dev' = d
    /\ UNCHANGED <<linear_ops, eig_systems>>

TransmonCommonOps ==
    /\ dev.kind = "SingleChargeTransmon"
    /\ Outcome("common_ops", NoValue, SingleChargeTransmon_common_ops(dev))
    /\ UNCHANGED <<dev, linear_ops, eig_systems>>

TransmonBuildCosPhiOp ==
    /\ dev.kind = "SingleChargeTransmon"
    /\ Outcome("build_cos_phi_op", NoValue, Returned("matrix", build_cos_phi_op(dev)))
    /\ UNCHANGED <<dev, linear_ops, eig_systems>>

TransmonGetHLinear ==
    /\ dev.kind = "SingleChargeTransmon"
    /\ Outcome("get_H_linear", NoValue, SingleChargeTransmon_get_H_linear(dev))
    /\ UNCHANGED <<dev, linear_ops, eig_systems>>

TransmonGetHFull ==
    /\ dev.kind = "SingleChargeTransmon"
    /\ LET Step(lo) ==
               /\ linear_ops' = lo.cache
               /\ Outcome("get_H_full", NoValue,
                          IF lo.err # "none" THEN [Raised(lo.err) EXCEPT !.built = lo.built]
                          ELSE [Returned("matrix",
                                         SingleChargeTransmon_get_H_full(dev, lo.val))
                                   EXCEPT !.built = lo.built])
       IN Step(LinearOpsAccess(linear_ops, SingleChargeTransmon_common_ops(dev)))
    /\ UNCHANGED <<dev, eig_systems>>

TransmonGetOpInHEigenbasis ==
    /\ dev.kind = "SingleChargeTransmon"
    /\ IF eig_systems.set
       THEN /\ \E op \in OperatorArguments(dev) :
                  Outcome("get_op_in_H_eigenbasis", op,
                          Returned("matrix",
                                   SingleChargeTransmon_get_op_in_H_eigenbasis(
                                       dev, eig_systems.val, op)))
            /\ UNCHANGED <<linear_ops, eig_systems>>
       ELSE LET Step(h) ==
                    IF h.err # "none"
                    THEN /\ \E op \in OperatorArguments(dev) :
                               Outcome("get_op_in_H_eigenbasis", op,
                                       [Raised(h.err) EXCEPT !.built = h.built])
                         /\ linear_ops' = h.cache
                         /\ eig_systems' = eig_systems
                    ELSE \E es \in EigenSystems(h.val) :
                            /\ \E op \in OperatorArguments(dev) :
                                   Outcome("get_op_in_H_eigenbasis", op,
                                           [Returned("matrix",
                                                SingleChargeTransmon_get_op_in_H_eigenbasis(
                                                    dev, es, op))
                                               EXCEPT !.built = h.built])
                            /\ linear_ops' = h.cache
                            /\ eig_systems' = Cached(es)
            IN Step(EigHamiltonian(dev, linear_ops))
    /\ UNCHANGED dev

FluxoniumCommonOps ==
    /\ dev.kind = "Fluxonium"
    /\ Outcome("common_ops", NoValue, Fluxonium_common_ops(dev))
    /\ UNCHANGED <<dev, linear_ops, eig_systems>>

FluxoniumGetHLinear ==
    /\ dev.kind = "Fluxonium"
    /\ LET Step(lo) ==
               /\ linear_ops' = lo.cache
               /\ Outcome("get_H_linear", NoValue,
                          Returned("matrix", Fluxonium_get_H_linear(dev, lo.val)))
       IN Step(LinearOpsAccess(linear_ops, Fluxonium_common_ops(dev)))
    /\ UNCHANGED <<dev, eig_systems>>

FluxoniumGetHFull ==
    /\ dev.kind = "Fluxonium"
    /\ LET Step(lo) ==
               /\ linear_ops' = lo.cache
               /\ Outcome("get_H_full", NoValue,
                          Returned("matrix", Fluxonium_get_H_full(dev, lo.val)))
       IN Step(LinearOpsAccess(linear_ops, Fluxonium_common_ops(dev)))
    /\ UNCHANGED <<dev, eig_systems>>

FluxoniumPotential ==
    /\ dev.kind = "Fluxonium"
    /\ \E phi \in PhiValues : Outcome("potential", phi, Fluxonium_potential(dev, phi))
    /\ UNCHANGED <<dev, linear_ops, eig_systems>>

Next ==
    \/ CreateTransmon
    \/ CreateFluxonium
    \/ TransmonCommonOps
    \/ TransmonBuildCosPhiOp
    \/ TransmonGetHLinear
    \/ TransmonGetHFull
    \/ TransmonGetOpInHEigenbasis
    \/ FluxoniumCommonOps
    \/ FluxoniumGetHLinear
    \/ FluxoniumGetHFull
    \/ FluxoniumPotential

Spec == Init /\ [][Next]_vars

(***************************************************************************)
(* Properties.                                                             *)
(***************************************************************************)
IsTransmon == dev.kind = "SingleChargeTransmon"

IsFluxonium == dev.kind = "Fluxonium"

Dim == 2 * dev.N_max_charge + 1

TransmonCreated == call = "create" /\ "N_max_charge" \in DOMAIN arg

\* C1 as stated: SingleChargeTransmon.create with N > 2*N_max_charge+1 fails
\* with a precondition error, and with N <= 2*N_max_charge+1 it succeeds.
CreateRejectsOversizedTruncation ==
    TransmonCreated =>
        IF arg.N > 2 * arg.N_max_charge + 1 THEN err = "AssertionError" ELSE err = "none"

\* C1, amended: SingleChargeTransmon.create succeeds for every N, N_max_charge
\* and params and returns a device holding exactly these values; with
\* N > 2*N_max_charge+1 the precondition error is raised when common_ops() is
\* invoked, directly or by the first access to linear_ops in get_H_full().
CreateSucceedsPreconditionAtCommonOps ==
    /\ TransmonCreated =>
          /\ err = "none"
          /\ IsTransmon
          /\ dev.N = arg.N
          /\ dev.N_max_charge = arg.N_max_charge
          /\ ret = [tag |-> "device", val |-> dev]
    /\ (IsTransmon /\ call \in {"common_ops", "get_H_full"} /\ dev.N > Dim) =>
          err = "AssertionError"
    /\ (IsTransmon /\ call \in {"common_ops", "get_H_full"} /\ dev.N <= Dim) =>
          err = "none"

CreatedOversizedTransmon ==
    TransmonCreated /\ arg.N > 2 * arg.N_max_charge + 1 /\ err = "none" /\ dev.N = arg.N

\* C2: common_ops() on a SingleChargeTransmon with N > 2*N_max_charge+1 fails
\* before any of the four operator builders has run and returns no mapping;
\* with N <= 2*N_max_charge+1 it returns a mapping whose keys are exactly
\* n, cos(phi), cos(phi/2), sin(phi/2).
CommonOpsFailsFast ==
    (IsTransmon /\ call = "common_ops") =>
        IF dev.N > Dim
        THEN err = "AssertionError" /\ built = <<>> /\ ret = NoValue /\ linear_ops = Unset
        ELSE /\ err = "none"
             /\ ret.tag = "ops"
             /\ DOMAIN ret.val = {"n", "cos(phi)", "cos(phi/2)", "sin(phi/2)"}

CommonOpsRejected ==
    IsTransmon /\ call = "common_ops" /\ dev.N > Dim /\ err = "AssertionError"

\* C3 as stated: SingleChargeTransmon.get_H_linear() always fails with the
\* unsupported-operation error and never returns a matrix.
GetHLinearUnsupported ==
    (IsTransmon /\ call = "get_H_linear") => (err = "NotImplementedError" /\ ret = NoValue)

\* C4: for every SingleChargeTransmon with N <= 2*N_max_charge+1,
\* common_ops()["n"] is the diagonal matrix with entry (i,i) = i - N_max_charge
\* for 0 <= i <= 2*N_max_charge and 0 off the diagonal.
ChargeOperatorIsDiagonalRange ==
    (IsTransmon /\ call = "common_ops" /\ dev.N <= Dim) =>
        /\ err = "none"
        /\ IsSquare(ret.val["n"], Dim)
        /\ \A i \in 0..(Dim - 1), j \in 0..(Dim - 1) :
              At(ret.val["n"], i, j) = IF i = j THEN CReal(RInt(i - dev.N_max_charge)) ELSE CZero

ChargeOperatorReturned ==
    IsTransmon /\ call = "common_ops" /\ err = "none" /\ dev.N_max_charge >= 1

\* C5: the matrix built by build_cos_phi_op has entry 1/2 exactly at the
\* positions (i,j) with |i-j| = 2 and 0 everywhere else, for every
\* N_max_charge; for N_max_charge = 1 the only non-zero entries are (0,2), (2,0).
CosPhiCouplesSecondNeighbours ==
    (IsTransmon /\ call = "build_cos_phi_op") =>
        /\ err = "none"
        /\ IsSquare(ret.val, Dim)
        /\ \A i \in 0..(Dim - 1), j \in 0..(Dim - 1) :
              At(ret.val, i, j) = IF Abs(i - j) = 2 THEN CReal(Rat(1, 2)) ELSE CZero
        /\ dev.N_max_charge = 1 =>
              {<<i, j>> \in (0..2) \X (0..2) : At(ret.val, i, j) # CZero} = {<<0, 2>>, <<2, 0>>}

CosPhiBuiltThreeByThree ==
    IsTransmon /\ call = "build_cos_phi_op" /\ dev.N_max_charge = 1 /\ err = "none"

OrthonormalColumns(V) == MatMul(Conjugate(Transpose(V)), V) = Eye(Rows(V), 0)

\* C6: for a SingleChargeTransmon whose eig_systems["vecs"] has orthonormal
\* columns, get_op_in_H_eigenbasis of the identity of dimension
\* 2*N_max_charge+1 is the identity matrix of size N x N.
IdentityProjectsToIdentity ==
    (/\ IsTransmon
     /\ call = "get_op_in_H_eigenbasis"
     /\ err = "none"
     /\ arg = identity(Dim)
     /\ eig_systems.set
     /\ OrthonormalColumns(eig_systems.val["vecs"])) =>
        ret = [tag |-> "matrix", val |-> identity(dev.N)]

IdentityProjectedOntoFewerLevels ==
    /\ IsTransmon
    /\ call = "get_op_in_H_eigenbasis"
    /\ err = "none"
    /\ arg = identity(Dim)
    /\ dev.N < Dim
    /\ eig_systems.set
    /\ ~IsDiagonal(eig_systems.val["vecs"])
    /\ \E i \in 1..Dim, j \in 1..Dim : eig_systems.val["vecs"][i][j].im # RZero

IsHermitian(H) == H = Conjugate(Transpose(H))

\* C7: every Hamiltonian returned by Fluxonium.get_H_linear,
\* Fluxonium.get_H_full and SingleChargeTransmon.get_H_full is Hermitian:
\* entry (i,j) is the complex conjugate of entry (j,i).
HamiltoniansAreHermitian ==
    (call \in {"get_H_linear", "get_H_full"} /\ err = "none") =>
        /\ ret.tag = "matrix"
        /\ IsHermitian(ret.val)
        /\ \A i \in 1..Rows(ret.val), j \in 1..Rows(ret.val) :
              ret.val[i][j] = CConj(ret.val[j][i])

FluxoniumFullHamiltonianReturned ==
    /\ IsFluxonium
    /\ call = "get_H_full"
    /\ err = "none"
    /\ dev.N_pre_diag >= 2
    /\ dev.params.Ej # RZero
    /\ dev.params.phi_ext # RZero
    /\ ~IsDiagonal(ret.val)

\* 0.5*El*(2*pi*phi)^2 = 2*El*pi^2*phi^2
HarmonicPotential(El, phi) == RMul(RMul(RInt(2), El), RMul(RMul(RPi, RPi), RMul(phi, phi)))

\* C8: Fluxonium.potential(phi) returns 0.5*El*(2*pi*phi)^2 when the selector
\* is linear, so potential(0) = 0; that value plus -Ej*cos(2*pi*(phi - phi_ext))
\* when the selector is full; and no value, without an error, for any other
\* selector.
PotentialFollowsSelector ==
    (IsFluxonium /\ call = "potential") =>
        /\ err = "none"
        /\ dev.hamiltonian = "linear" =>
              /\ ret = [tag |-> "scalar", val |-> HarmonicPotential(dev.params.El, arg)]
              /\ arg = RZero => ret.val = RZero
        /\ dev.hamiltonian = "full" =>
              ret = [tag |-> "scalar",
                     val |-> RSub(HarmonicPotential(dev.params.El, arg),
                                  RMul(dev.params.Ej,
                                       RCos(RMul(RMul(RInt(2), RPi),
                                                 RSub(arg, dev.params.phi_ext)))))]
        /\ dev.hamiltonian \notin {"linear", "full"} => ret = [tag |-> "None"]

PotentialOfOtherSelector ==
    IsFluxonium /\ call = "potential" /\ dev.hamiltonian = "truncated" /\ ret = [tag |-> "None"]

OperatorDimensionsConsistent ==
    (call = "common_ops" /\ err = "none") =>
        /\ IsTransmon =>
              /\ Cardinality(DOMAIN ret.val) = 4
              /\ \A k \in DOMAIN ret.val : IsSquare(ret.val[k], Dim)
        /\ IsFluxonium =>
              /\ Cardinality(DOMAIN ret.val) = 7
              /\ \A k \in DOMAIN ret.val : IsSquare(ret.val[k], dev.N_pre_diag)

FluxoniumOperatorsReturned ==
    /\ IsFluxonium
    /\ call = "common_ops"
    /\ err = "none"
    /\ dev.N # dev.N_pre_diag
    /\ Cardinality(DOMAIN ret.val) = 7

====
